---- MODULE Spec2Model ----
(***************************************************************************)
(* Model of embedia's ToolUser agent (src/embedia/agents/tooluser.py):     *)
(* one ToolUser instance, its constructor, and successive calls of _run.   *)
(*                                                                         *)
(* Text is modelled as a sequence of tokens.  The tokens ":", "\n", " "    *)
(* and "'" are the characters the code looks at (str.split, str.strip,     *)
(* eval of a quoted literal); every other token is a run of characters     *)
(* that contains none of them.                                             *)
(*                                                                         *)
(* Time is a discrete clock that advances only while a run is suspended at *)
(* an await (completion call, human confirmation, tool invocation); the    *)
(* synchronous statements between two awaits take no time.                 *)
(***************************************************************************)
EXTENDS Integers, Sequences, FiniteSets, TLC

\* ------------------------------------------------------------------ bounds
MaxRuns == 2
MaxTools == 2
MaxStepsBound == 3
MaxDurationBound == 1
MaxClock == 2

Runs == 1..MaxRuns

\* -------------------------------------------------------------------- text
Colon == ":"
Newline == "\n"
Space == " "
Quote == "'"

RECURSIVE Split(_, _)
\* str.split(sep): the pieces between the occurrences of sep (always >= 1 piece)
Split(s, sep) ==
    IF \A i \in 1..Len(s) : s[i] # sep
    THEN <<s>>
    ELSE LET i == CHOOSE k \in 1..Len(s) :
                      s[k] = sep /\ \A j \in 1..(k - 1) : s[j] # sep
         IN  <<SubSeq(s, 1, i - 1)>> \o Split(SubSeq(s, i + 1, Len(s)), sep)

RECURSIVE Join(_, _)
\* sep.join(parts)
Join(parts, sep) ==
    IF Len(parts) = 0 THEN <<>>
    ELSE IF Len(parts) = 1 THEN parts[1]
    ELSE parts[1] \o <<sep>> \o Join(Tail(parts), sep)

IsWhite(t) == t \in {Space, Newline}

RECURSIVE LStrip(_)
LStrip(s) == IF Len(s) > 0 /\ IsWhite(s[1]) THEN LStrip(Tail(s)) ELSE s

RECURSIVE RStrip(_)
RStrip(s) ==
    IF Len(s) > 0 /\ IsWhite(s[Len(s)]) THEN RStrip(SubSeq(s, 1, Len(s) - 1)) ELSE s

\* str.strip()
Strip(s) == RStrip(LStrip(s))

\* ------------------------------------------------------------------- tools
\* A Tool as ToolUser sees it: tool.name and the keys of tool.args.
FileRead == [name |-> <<"File Read">>, args |-> {<<"file_path">>, <<"encoding">>}]
FolderList == [name |-> <<"Folder List">>, args |-> {<<"folder">>}]
NoArgTool == [name |-> <<"Ping">>, args |-> {}]

ToolPool == {FileRead, FolderList, NoArgTool}

\* the lists a caller may pass as `tools` (the empty list included); the tools of
\* a list are distinct
ToolLists ==
    {ts \in UNION {[1..n -> ToolPool] : n \in 0..MaxTools} :
        \A i, j \in 1..Len(ts) : ts[i] = ts[j] => i = j}

\* ------------------------------------------------------ completion service
\* contents the tool chooser may answer with
ToolReplies == {<<"File Read">>, <<"Folder List">>, <<"Ping">>, <<Space, "File Read">>}

\* contents the argument chooser may answer with
ArgReplies ==
    { <<"folder", Colon, Space, "/tmp">>,
      <<"folder", Colon, Space, "C", Colon, "/x">>,
      <<"file_path", Colon, Space, "/tmp/a.txt", Newline,
        "encoding", Colon, Space, Quote, "utf-8", Quote>>,
      <<"folder", Colon, Space, "/tmp", Newline, "bogus", Colon, Space, "1">> }

\* contents the system-1 thinker may answer with
Sys1Replies ==
    { <<"Final Answer", Colon, Space, "42">>,
      <<"Question", Colon, Space, "what next">> }

Goals == {<<"goal">>}
Results == {<<"out1">>, <<"out2">>}

NumLits == {"1", "42"}

\* eval(text) inside try/except: a quoted literal or a number is evaluated,
\* anything else raises and the text is kept
Eval(v) ==
    IF Len(v) = 3 /\ v[1] = Quote /\ v[3] = Quote /\ v[2] \notin {Quote, Newline}
    THEN [t |-> "str", v |-> <<v[2]>>]
    ELSE IF Len(v) = 1 /\ v[1] \in NumLits
    THEN [t |-> "int", v |-> v]
    ELSE [t |-> "str", v |-> v]


\* ---------------------------------------------------------------- Selector
\* ToolChooserAsked without the short circuit on a single tool
ToolChooserAskedAlways(ts) == TRUE

\* `if len(self.tools) == 1: return self.tools[0]`: the tool chooser is asked
\* only when this is false
ToolChooserAsked(ts) == Len(ts) # 1

\* ChooseTool falling back on the first tool when no name equals the reply
ChooseToolFallback(ts, reply) ==
    IF \E i \in 1..Len(ts) : ts[i].name = reply
    THEN LET i == CHOOSE k \in 1..Len(ts) :
                      ts[k].name = reply /\ \A j \in 1..(k - 1) : ts[j].name # reply
         IN  [ok |-> TRUE, tool |-> ts[i]]
    ELSE [ok |-> TRUE, tool |-> ts[1]]

\* ToolUser._choose_tool, given the content the tool chooser answers with
\* (ignored when the chooser is not asked)
ChooseTool(ts, reply) ==
    IF ~ToolChooserAsked(ts)
    THEN [ok |-> TRUE, tool |-> ts[1]]
    ELSE IF \E i \in 1..Len(ts) : ts[i].name = reply
    THEN LET i == CHOOSE k \in 1..Len(ts) :
                      ts[k].name = reply /\ \A j \in 1..(k - 1) : ts[j].name # reply
         IN  [ok |-> TRUE, tool |-> ts[i]]
    ELSE [ok |-> FALSE, err |-> "AgentError", detail |-> reply]

\* --------------------------------------------------------- Argument Binder
\* `if len(tool_choice.args) == 0: return {}`
\* ArgChooserAsked without the early return on an empty schema
ArgChooserAskedAlways(tool) == TRUE
ArgChooserAsked(tool) == tool.args # {}

ArgName(line) == Strip(Split(line, Colon)[1])
\* ArgValue keeping only the text between the first and the second colon
ArgValueSecondPiece(line) ==
    IF Len(Split(line, Colon)) >= 2 THEN Strip(Split(line, Colon)[2]) ELSE <<>>
ArgValue(line) == Strip(Join(Tail(Split(line, Colon)), Colon))

RECURSIVE ArgChoiceDict(_)
\* arg_choice_dict after the first loop: a later line overrides an earlier one
ArgChoiceDict(lines) ==
    IF Len(lines) = 0 THEN [n \in {} |-> <<>>]
    ELSE LET rest == ArgChoiceDict(SubSeq(lines, 1, Len(lines) - 1))
             line == lines[Len(lines)]
         IN  [n \in (DOMAIN rest) \cup {ArgName(line)} |->
                 IF n = ArgName(line) THEN ArgValue(line) ELSE rest[n]]

\* ChooseArgs skipping the names the schema does not hold instead of raising
ChooseArgsBestEffort(tool, reply) ==
    IF ~ArgChooserAsked(tool)
    THEN [ok |-> TRUE, kwargs |-> [n \in {} |-> <<>>]]
    ELSE LET d == ArgChoiceDict(Split(reply, Newline))
         IN  [ok |-> TRUE,
              kwargs |-> [n \in (DOMAIN d) \cap tool.args |-> Eval(d[n])]]

\* ToolUser._choose_args, given the content the argument chooser answers with
ChooseArgs(tool, reply) ==
    IF ~ArgChooserAsked(tool)
    THEN [ok |-> TRUE, kwargs |-> [n \in {} |-> <<>>]]
    ELSE LET lines == Split(reply, Newline)
             d == ArgChoiceDict(lines)
             bad == {i \in 1..Len(lines) : ArgName(lines[i]) \notin tool.args}
         IN  IF bad # {}
             THEN LET i == CHOOSE k \in bad : \A j \in bad : k <= j
                  IN  [ok |-> FALSE, err |-> "AgentError", detail |-> ArgName(lines[i])]
             ELSE [ok |-> TRUE, kwargs |-> [n \in DOMAIN d |-> Eval(d[n])]]

\* ---------------------------------------------------- Continuation Reasoner
\* ToolUser._choose_next_step, given the content the system-1 thinker answers
\* with: resp.split(':')[0] selects the kind, resp.split(':')[1] is the payload
ChooseNextStep(resp) ==
    LET parts == Split(resp, Colon)
    IN  IF parts[1] \in {<<"Question">>, <<"Final Answer">>}
        THEN IF Len(parts) >= 2
             THEN [ok |-> TRUE, thought |-> parts[2], thought_type |-> parts[1]]
             ELSE [ok |-> FALSE, err |-> "IndexError", detail |-> resp]
        ELSE [ok |-> FALSE, err |-> "AgentError", detail |-> resp]

\* the value of the call expression `self._choose_next_step()` on line 102: the
\* method is a coroutine function and the call is not awaited
ChooseNextStepCall == [kind |-> "coroutine"]

\* `thought, thought_type = <obj>`: only an iterable of two items unpacks
UnpackPair(obj) ==
    IF obj.kind = "tuple"
    THEN [ok |-> TRUE]
    ELSE [ok |-> FALSE, err |-> "TypeError"]

\* ------------------------------------------------------------------- state
VARIABLES
    inst,          \* "none" | "built" | "rejected": what ToolUser(...) produced
    tools,         \* self.tools
    max_steps,     \* self.max_steps
    max_duration,  \* self.max_duration
    action_steps,  \* self.action_steps
    clock,         \* time.time()
    pc,            \* where each call of _run stands
    steps,         \* _run's local `steps`
    now,           \* _run's local `now`
    question,      \* _run's local `question`
    tool_choice,   \* _run's local `tool_choice`
    kwargs,        \* _run's local `kwargs`
    status,        \* second component of the returned tuple (-1: nothing returned)
    value,         \* first component of the returned tuple
    err,           \* the exception that left _run ("none": no exception)
    sys1_reply,    \* the content the system-1 thinker answers the next prompt with
    step_owner,    \* for each entry of action_steps, the call of _run that appended it
    calls,         \* per call of _run, how often each collaborator was called
    events,        \* per call of _run, the events it published, in order
    crossed,       \* per call of _run, whether the deadline passed during a tool invocation
    obs,           \* per call of _run, what passed between it and its collaborators
    bind_case,     \* one call of _choose_args on its own: tool, response, result
    think_case,    \* one call of _choose_next_step on its own: response, result
    fd             \* one call of FolderDelete._run: the tool, the file system, the outcome

cfgVars == <<inst, tools, max_steps, max_duration>>
localVars == <<steps, now, question, tool_choice, kwargs>>
outVars == <<status, value, err>>
vars == <<inst, tools, max_steps, max_duration, action_steps, clock, pc, steps, now,
          question, tool_choice, kwargs, status, value, err, sys1_reply, step_owner,
          calls, events, crossed, obs, bind_case, think_case, fd>>

\* the state of the functions and tools exercised on their own
sideVars == <<bind_case, think_case, fd>>

NoTool == [name |-> <<>>, args |-> {}]
NoKwargs == [n \in {} |-> <<>>]
NoCalls == [tool_chooser |-> 0, arg_chooser |-> 0, human_confirmation |-> 0,
            rejections |-> 0, tool |-> 0, failures |-> 0, next_step |-> 0]

\* tool_replies, arg_replies: the contents the two choosers answered with, in
\* order; detail: the text the last AgentError carries; confirmations: the
\* payloads given to human_confirmation and the answers; invocations: the tools
\* called and the arguments they were called with
NoObs == [tool_replies |-> <<>>, arg_replies |-> <<>>, detail |-> <<>>,
          confirmations |-> <<>>, invocations |-> <<>>]

Terminal == {"returned", "raised"}

\* nothing is being exercised on its own
NoCase == [done |-> TRUE]

SideIdle == bind_case = NoCase /\ think_case = NoCase /\ fd = NoCase

\* no ToolUser has been constructed
AgentIdle ==
    /\ inst = "none"
    /\ tools = <<>>
    /\ max_steps = 0
    /\ max_duration = 0
    /\ action_steps = <<>>
    /\ clock = 0
    /\ pc = [r \in Runs |-> "idle"]
    /\ steps = [r \in Runs |-> 0]
    /\ now = [r \in Runs |-> 0]
    /\ question = [r \in Runs |-> <<>>]
    /\ tool_choice = [r \in Runs |-> NoTool]
    /\ kwargs = [r \in Runs |-> NoKwargs]
    /\ status = [r \in Runs |-> -1]
    /\ value = [r \in Runs |-> <<>>]
    /\ err = [r \in Runs |-> "none"]
    /\ sys1_reply = <<>>
    /\ step_owner = <<>>
    /\ calls = [r \in Runs |-> NoCalls]
    /\ events = [r \in Runs |-> <<>>]
    /\ crossed = [r \in Runs |-> FALSE]
    /\ obs = [r \in Runs |-> NoObs]

Init == AgentIdle /\ SideIdle

\* ------------------------------------------------------------- construction
\* check_min_val(value, min_val, name): raises unless value >= min_val
CheckMinVal(v, min_val) == v >= min_val

\* ToolUser._check_init: the only checks are the types (which the arguments drawn
\* here satisfy) and len(tools) >= 1; max_steps and max_duration are not looked at
CheckInit(ts, ms, md) == CheckMinVal(Len(ts), 1)

\* ToolUser.__init__
Construct(ts, ms, md) ==
    /\ inst = "none"
    /\ IF CheckInit(ts, ms, md)
       THEN /\ inst' = "built"
            /\ tools' = ts
            /\ max_steps' = ms
            /\ max_duration' = md
       ELSE /\ inst' = "rejected"
            /\ UNCHANGED <<tools, max_steps, max_duration>>
    /\ action_steps' = <<>>
    /\ UNCHANGED <<sideVars, clock, pc, localVars, outVars, sys1_reply, step_owner,
                   calls, events, crossed, obs>>

\* ---------------------------------------------------------------- leaving
\* an exception leaves _run
Raise(r, e) ==
    /\ pc' = [pc EXCEPT ![r] = "raised"]
    /\ err' = [err EXCEPT ![r] = e]
    /\ UNCHANGED <<status, value>>

\* `return v, s`
Return(r, v, s) ==
    /\ pc' = [pc EXCEPT ![r] = "returned"]
    /\ value' = [value EXCEPT ![r] = v]
    /\ status' = [status EXCEPT ![r] = s]
    /\ UNCHANGED err

\* --------------------------------------------------------------------- _run
\* a caller calls _run(question).  Calls on the instance follow one another: the
\* earlier calls have ended, their frames are gone and their outcomes have been
\* handed to the caller ("done").
StartRun(r, q) ==
    /\ inst = "built"
    /\ pc[r] = "idle"
    /\ \A j \in Runs : j < r => pc[j] \in Terminal \cup {"done"}
    /\ pc' = [j \in Runs |-> IF j = r THEN "LoopHead"
                              ELSE IF j < r THEN "done" ELSE pc[j]]
    /\ steps' = [j \in Runs |-> IF j = r THEN 1 ELSE 0]
    /\ now' = [j \in Runs |-> IF j = r THEN clock ELSE 0]
    /\ question' = [j \in Runs |-> IF j = r THEN q ELSE <<>>]
    /\ tool_choice' = [j \in Runs |-> NoTool]
    /\ kwargs' = [j \in Runs |-> NoKwargs]
    /\ status' = [j \in Runs |-> -1]
    /\ value' = [j \in Runs |-> <<>>]
    /\ err' = [j \in Runs |-> "none"]
    /\ calls' = [j \in Runs |-> NoCalls]
    /\ events' = [j \in Runs |-> <<>>]
    /\ crossed' = [j \in Runs |-> FALSE]
    /\ obs' = [j \in Runs |-> NoObs]
    /\ UNCHANGED <<sideVars, cfgVars, action_steps, clock, sys1_reply, step_owner>>

\* time.time() - now
Elapsed(r) == clock - now[r]

\* LoopGuard without the check of the steps made
LoopGuardDurationOnly(r) == Elapsed(r) <= max_duration

\* LoopGuard without the check of the elapsed time
LoopGuardStepsOnly(r) == steps[r] <= max_steps

\* the while condition
LoopGuard(r) == steps[r] <= max_steps /\ Elapsed(r) <= max_duration

\* `while ...:` and `if self.action_steps:`
LoopHead(r) ==
    /\ pc[r] = "LoopHead"
    /\ \E resp \in Sys1Replies :
          IF LoopGuard(r)
          THEN IF action_steps # <<>>
               THEN /\ pc' = [pc EXCEPT ![r] = "Deciding"]
                    /\ sys1_reply' = resp
                    /\ calls' = [calls EXCEPT ![r].next_step = @ + 1]
               ELSE /\ pc' = [pc EXCEPT ![r] = "Selecting"]
                    /\ UNCHANGED <<sys1_reply, calls>>
          ELSE /\ pc' = [pc EXCEPT ![r] = "Exhausted"]
               /\ UNCHANGED <<sys1_reply, calls>>
    /\ UNCHANGED <<sideVars, cfgVars, action_steps, clock, localVars, outVars, step_owner,
                   events, crossed, obs>>

\* lines 102-106: the call is not awaited, so the assignment unpacks a coroutine
Decide(r) ==
    /\ pc[r] = "Deciding"
    /\ LET u == UnpackPair(ChooseNextStepCall)
           n == ChooseNextStep(sys1_reply)
       IN  IF ~u.ok
           THEN Raise(r, u.err) /\ UNCHANGED question
           ELSE IF ~n.ok
           THEN Raise(r, n.err) /\ UNCHANGED question
           ELSE IF n.thought_type = <<"Question">>
           THEN /\ question' = [question EXCEPT ![r] = n.thought]
                /\ pc' = [pc EXCEPT ![r] = "Selecting"]
                /\ UNCHANGED outVars
           ELSE Return(r, n.thought, 0) /\ UNCHANGED question
    /\ UNCHANGED <<sideVars, cfgVars, action_steps, clock, steps, now, tool_choice, kwargs,
                   sys1_reply, step_owner, calls, events, crossed, obs>>

\* line 108: tool_choice = await self._choose_tool(question)
Select(r) ==
    /\ pc[r] = "Selecting"
    /\ \E reply \in ToolReplies, fails \in BOOLEAN :
          LET c == ChooseTool(tools, reply)
          IN  /\ calls' = [calls EXCEPT ![r].tool_chooser =
                               IF ToolChooserAsked(tools) THEN @ + 1 ELSE @]
              /\ obs' = [obs EXCEPT
                            ![r].tool_replies =
                                IF ToolChooserAsked(tools) /\ ~fails
                                THEN Append(@, reply) ELSE @,
                            ![r].detail =
                                IF ~(ToolChooserAsked(tools) /\ fails) /\ ~c.ok
                                THEN c.detail ELSE @]
              /\ IF ToolChooserAsked(tools) /\ fails
                 THEN Raise(r, "CompletionError") /\ UNCHANGED tool_choice
                 ELSE IF ~c.ok
                 THEN Raise(r, c.err) /\ UNCHANGED tool_choice
                 ELSE /\ tool_choice' = [tool_choice EXCEPT ![r] = c.tool]
                      /\ pc' = [pc EXCEPT ![r] = "Binding"]
                      /\ UNCHANGED outVars
    /\ UNCHANGED <<sideVars, cfgVars, action_steps, clock, steps, now, question, kwargs,
                   sys1_reply, step_owner, events, crossed>>

\* line 109: kwargs = await self._choose_args(question, tool_choice)
Bind(r) ==
    /\ pc[r] = "Binding"
    /\ \E reply \in ArgReplies, fails \in BOOLEAN :
          LET c == ChooseArgs(tool_choice[r], reply)
          IN  /\ calls' = [calls EXCEPT ![r].arg_chooser =
                               IF ArgChooserAsked(tool_choice[r]) THEN @ + 1 ELSE @]
              /\ obs' = [obs EXCEPT
                            ![r].arg_replies =
                                IF ArgChooserAsked(tool_choice[r]) /\ ~fails
                                THEN Append(@, reply) ELSE @,
                            ![r].detail =
                                IF ~(ArgChooserAsked(tool_choice[r]) /\ fails) /\ ~c.ok
                                THEN c.detail ELSE @]
              /\ IF ArgChooserAsked(tool_choice[r]) /\ fails
                 THEN Raise(r, "CompletionError") /\ UNCHANGED kwargs
                 ELSE IF ~c.ok
                 THEN Raise(r, c.err) /\ UNCHANGED kwargs
                 ELSE /\ kwargs' = [kwargs EXCEPT ![r] = c.kwargs]
                      /\ pc' = [pc EXCEPT ![r] = "Confirming"]
                      /\ UNCHANGED outVars
    /\ UNCHANGED <<sideVars, cfgVars, action_steps, clock, steps, now, question, tool_choice,
                   sys1_reply, step_owner, events, crossed>>

\* ConfirmPayload built before the Binder ran: the arguments are not in it
ConfirmPayloadWithoutArgs(r) == [tool |-> tool_choice[r].name, args |-> NoKwargs]

\* the details given to human_confirmation on line 111
ConfirmPayload(r) == [tool |-> tool_choice[r].name, args |-> kwargs[r]]

\* the call on line 112: the chosen tool, called with **kwargs
InvokeCall(r) == [tool |-> tool_choice[r].name, args |-> kwargs[r]]

\* Tool.human_confirmation(details): returns when the human accepts, raises otherwise
HumanConfirmation(accepted) ==
    IF accepted THEN [ok |-> TRUE] ELSE [ok |-> FALSE, err |-> "ConfirmationRejected"]

\* Confirm with the rejection caught and dropped: the loop goes on to the tool
ConfirmIgnoringRejection(r) ==
    /\ pc[r] = "Confirming"
    /\ \E accepted \in BOOLEAN :
          LET h == HumanConfirmation(accepted)
          IN  /\ calls' = [calls EXCEPT ![r].human_confirmation = @ + 1,
                                        ![r].rejections = IF h.ok THEN @ ELSE @ + 1]
              /\ obs' = [obs EXCEPT ![r].confirmations =
                            Append(@, [payload |-> ConfirmPayload(r),
                                       accepted |-> accepted])]
    /\ pc' = [pc EXCEPT ![r] = "Invoking"]
    /\ UNCHANGED <<sideVars, cfgVars, action_steps, clock, localVars, outVars, sys1_reply,
                   step_owner, events, crossed>>

\* line 111: await self.human_confirmation({'tool': ..., 'args': kwargs})
Confirm(r) ==
    /\ pc[r] = "Confirming"
    /\ \E accepted \in BOOLEAN :
          LET h == HumanConfirmation(accepted)
          IN  /\ calls' = [calls EXCEPT ![r].human_confirmation = @ + 1,
                                        ![r].rejections = IF h.ok THEN @ ELSE @ + 1]
              /\ obs' = [obs EXCEPT ![r].confirmations =
                            Append(@, [payload |-> ConfirmPayload(r),
                                       accepted |-> accepted])]
              /\ IF h.ok
                 THEN pc' = [pc EXCEPT ![r] = "Invoking"] /\ UNCHANGED outVars
                 ELSE Raise(r, h.err)
    /\ UNCHANGED <<sideVars, cfgVars, action_steps, clock, localVars, sys1_reply, step_owner,
                   events, crossed>>

\* Record with lines 114-120 indented one level less: they run after the loop,
\* not in it
RecordOutsideLoop(r, result) == UNCHANGED <<action_steps, step_owner, steps, events>>

\* Record without line 120: the step is appended but no event is published
RecordWithoutEvent(r, result) ==
    LET action_step == [question |-> question[r],
                        action |-> [tool_name |-> tool_choice[r].name,
                                    args |-> kwargs[r]],
                        result |-> result]
    IN  /\ action_steps' = Append(action_steps, action_step)
        /\ step_owner' = Append(step_owner, r)
        /\ steps' = [steps EXCEPT ![r] = @ + 1]
        /\ UNCHANGED events

\* lines 114-120: build the ActionStep, append it, count it, publish AgentStep
Record(r, result) ==
    LET action_step == [question |-> question[r],
                        action |-> [tool_name |-> tool_choice[r].name,
                                    args |-> kwargs[r]],
                        result |-> result]
    IN  /\ action_steps' = Append(action_steps, action_step)
        /\ step_owner' = Append(step_owner, r)
        /\ steps' = [steps EXCEPT ![r] = @ + 1]
        /\ events' = [events EXCEPT ![r] =
                         Append(@, [event |-> "AgentStep", action_step |-> action_step])]

\* Invoke with the tool's exception caught: the failure is recorded as a step
\* with an empty result and the loop goes on
InvokeCatchingFailure(r) ==
    /\ pc[r] = "Invoking"
    /\ \E result \in Results, fails \in BOOLEAN :
          /\ calls' = [calls EXCEPT ![r].tool = @ + 1,
                                    ![r].failures = IF fails THEN @ + 1 ELSE @]
          /\ obs' = [obs EXCEPT ![r].invocations = Append(@, InvokeCall(r))]
          /\ Record(r, IF fails THEN <<>> ELSE result)
          /\ pc' = [pc EXCEPT ![r] = "LoopHead"]
          /\ UNCHANGED outVars
    /\ UNCHANGED <<sideVars, cfgVars, clock, now, question, tool_choice, kwargs, sys1_reply,
                   crossed>>

\* line 112: result = await tool_choice(**kwargs), then lines 114-120
Invoke(r) ==
    /\ pc[r] = "Invoking"
    /\ \E result \in Results, fails \in BOOLEAN :
          /\ calls' = [calls EXCEPT ![r].tool = @ + 1,
                                    ![r].failures = IF fails THEN @ + 1 ELSE @]
          /\ obs' = [obs EXCEPT ![r].invocations = Append(@, InvokeCall(r))]
          /\ IF fails
             THEN /\ Raise(r, "CapabilityError")
                  /\ UNCHANGED <<action_steps, step_owner, steps, events>>
             ELSE /\ Record(r, result)
                  /\ pc' = [pc EXCEPT ![r] = "LoopHead"]
                  /\ UNCHANGED outVars
    /\ UNCHANGED <<sideVars, cfgVars, clock, now, question, tool_choice, kwargs, sys1_reply,
                   crossed>>

\* lines 122-125: publish AgentTimeout, return the last step's result and 1
Timeout(r) ==
    /\ pc[r] = "Exhausted"
    /\ events' = [events EXCEPT ![r] =
                     Append(@, [event |-> "AgentTimeout",
                                action_steps |-> action_steps,
                                duration |-> Elapsed(r),
                                num_steps |-> steps[r] - 1])]
    /\ IF action_steps = <<>>
       THEN Raise(r, "IndexError")
       ELSE Return(r, action_steps[Len(action_steps)].result, 1)
    /\ UNCHANGED <<sideVars, cfgVars, action_steps, clock, localVars, sys1_reply, step_owner,
                   calls, crossed, obs>>

\* a call of _run suspended at an await that takes time
Suspended(r) ==
    \/ pc[r] = "Selecting" /\ ToolChooserAsked(tools)
    \/ pc[r] = "Binding" /\ ArgChooserAsked(tool_choice[r])
    \/ pc[r] \in {"Confirming", "Invoking"}

\* wall-clock time passes while a call is suspended
Tick ==
    /\ clock < MaxClock
    /\ \E r \in Runs : Suspended(r)
    /\ clock' = clock + 1
    /\ crossed' = [r \in Runs |->
                      \/ crossed[r]
                      \/ /\ pc[r] = "Invoking"
                         /\ Elapsed(r) <= max_duration
                         /\ clock' - now[r] > max_duration]
    /\ UNCHANGED <<sideVars, cfgVars, action_steps, pc, localVars, outVars, sys1_reply,
                   step_owner, calls, events, obs>>

Next ==
    \/ \E ts \in ToolLists, ms \in 0..MaxStepsBound, md \in 0..MaxDurationBound :
          Construct(ts, ms, md)
    \/ \E r \in Runs, q \in Goals : StartRun(r, q)
    \/ \E r \in Runs : LoopHead(r)
    \/ \E r \in Runs : Decide(r)
    \/ \E r \in Runs : Select(r)
    \/ \E r \in Runs : Bind(r)
    \/ \E r \in Runs : Confirm(r)
    \/ \E r \in Runs : Invoke(r)
    \/ \E r \in Runs : Timeout(r)
    \/ Tick

Spec == Init /\ [][Next]_vars

\* ------------------------------------------- calls of _run that overlap
\* a call of _run that is running: it has the event loop until its next await
Running(r) == pc[r] \notin {"idle", "done"} \cup Terminal /\ ~Suspended(r)

\* the event loop can run call r: every other call is suspended or over
CanRun(r) == \A o \in Runs \ {r} : ~Running(o)

\* a task calls _run(question) while other calls may be suspended.  The calls
\* looked at are those made before any step was recorded on the instance; they
\* are numbered in the order they start.
StartRunConc(r, q) ==
    /\ inst = "built"
    /\ pc[r] = "idle"
    /\ \A j \in Runs : j < r => pc[j] # "idle"
    /\ action_steps = <<>>
    /\ pc' = [pc EXCEPT ![r] = "LoopHead"]
    /\ steps' = [steps EXCEPT ![r] = 1]
    /\ now' = [now EXCEPT ![r] = clock]
    /\ question' = [question EXCEPT ![r] = q]
    /\ UNCHANGED <<sideVars, cfgVars, action_steps, clock, tool_choice, kwargs, outVars,
                   sys1_reply, step_owner, calls, events, crossed, obs>>

NextConc ==
    \/ \E ts \in ToolLists, ms \in 0..MaxStepsBound, md \in 0..MaxDurationBound :
          Construct(ts, ms, md)
    \/ \E r \in Runs, q \in Goals : CanRun(r) /\ StartRunConc(r, q)
    \/ \E r \in Runs : CanRun(r) /\ LoopHead(r)
    \/ \E r \in Runs : CanRun(r) /\ Decide(r)
    \/ \E r \in Runs : CanRun(r) /\ Select(r)
    \/ \E r \in Runs : CanRun(r) /\ Bind(r)
    \/ \E r \in Runs : CanRun(r) /\ Confirm(r)
    \/ \E r \in Runs : CanRun(r) /\ Invoke(r)
    \/ \E r \in Runs : CanRun(r) /\ Timeout(r)
    \/ Tick

SpecConc == Init /\ [][NextConc]_vars

\* the variables of the agent, which the specifications below leave alone
agentVars == <<inst, tools, max_steps, max_duration, action_steps, clock, pc, steps,
               now, question, tool_choice, kwargs, status, value, err, sys1_reply,
               step_owner, calls, events, crossed, obs>>

\* ------------------------------------------------- _choose_args on its own
MaxLineLen == 4

\* the Capability of the specification's example: arguments path and mode
PathModeTool == [name |-> <<"Open">>, args |-> {<<"path">>, <<"mode">>}]

BinderTools == ToolPool \cup {PathModeTool}

\* "path: /tmp/a.txt\nmode: 'r'"
PathModeReply ==
    <<"path", Colon, Space, "/tmp/a.txt", Newline, "mode", Colon, Space, Quote, "r", Quote>>

\* one-line responses over a small alphabet, the responses of the agent's
\* argument chooser, and the example
BinderReplies ==
    UNION {[1..n -> {"path", Colon, Space, "/tmp/a.txt"}] : n \in 1..MaxLineLen}
        \cup ArgReplies \cup {PathModeReply}

BinderInit ==
    /\ AgentIdle
    /\ think_case = NoCase /\ fd = NoCase
    /\ \E t \in BinderTools, rp \in BinderReplies :
          bind_case = [done |-> FALSE, tool |-> t, reply |-> rp]

\* await self._choose_args(question, tool), the argument chooser answering reply
BindOnce ==
    /\ ~bind_case.done
    /\ bind_case' = [done |-> TRUE, tool |-> bind_case.tool, reply |-> bind_case.reply,
                     result |-> ChooseArgs(bind_case.tool, bind_case.reply)]
    /\ UNCHANGED <<agentVars, think_case, fd>>

SpecBinder == BinderInit /\ [][BindOnce]_vars

\* ------------------------------------------- _choose_next_step on its own
MaxRespLen == 5

\* responses over a small alphabet, and the responses of the agent's thinker
ThinkReplies ==
    UNION {[1..n -> {"Question", "Final Answer", Colon, "x"}] : n \in 1..MaxRespLen}
        \cup Sys1Replies

ThinkInit ==
    /\ AgentIdle
    /\ bind_case = NoCase /\ fd = NoCase
    /\ \E resp \in ThinkReplies : think_case = [done |-> FALSE, resp |-> resp]

\* await self._choose_next_step(), the system-1 thinker answering resp
ThinkOnce ==
    /\ ~think_case.done
    /\ think_case' = [done |-> TRUE, resp |-> think_case.resp,
                      result |-> ChooseNextStep(think_case.resp)]
    /\ UNCHANGED <<agentVars, bind_case, fd>>

SpecReasoner == ThinkInit /\ [][ThinkOnce]_vars

\* ------------------------------------------------------------ FolderDelete
\* paths, and the files a folder may hold
Paths == {"/a", "/b"}
Files == {"f1", "f2"}

\* what is at a path: nothing, a regular file, or a folder with its contents
Missing == [kind |-> "missing", contents |-> {}]
Entries ==
    {Missing, [kind |-> "file", contents |-> {}]}
        \cup {[kind |-> "folder", contents |-> c] : c \in SUBSET Files}

\* os.listdir(folder)
ListDir(fs, folder) ==
    IF fs[folder].kind = "missing" THEN [ok |-> FALSE, err |-> "FileNotFoundError"]
    ELSE IF fs[folder].kind = "file" THEN [ok |-> FALSE, err |-> "NotADirectoryError"]
    ELSE [ok |-> TRUE, names |-> fs[folder].contents]

\* shutil.rmtree(folder, ignore_errors=True): the file system afterwards
RmTree(fs, folder) ==
    IF fs[folder].kind = "folder" THEN [fs EXCEPT ![folder] = Missing] ELSE fs

\* FolderDelete(verify_before_deleting) is about to run on a folder
FolderDeleteInit ==
    /\ AgentIdle
    /\ bind_case = NoCase /\ think_case = NoCase
    /\ \E v \in BOOLEAN, folder \in Paths, fs \in [Paths -> Entries] :
          fd = [done |-> FALSE, pc |-> "start", verify_before_deleting |-> v,
                folder |-> folder, fs0 |-> fs, fs |-> fs, asked |-> <<>>,
                answers |-> <<>>, exit_code |-> -1, err |-> "none"]

\* the action stays as it is but for the given outcome
FdRaise(e) == fd' = [fd EXCEPT !.done = TRUE, !.pc = "raised", !.err = e]

\* return ToolReturn(output=shutil.rmtree(folder, ignore_errors=True), exit_code=0)
FdDelete(asked, answers) ==
    fd' = [fd EXCEPT !.done = TRUE, !.pc = "returned", !.exit_code = 0,
                     !.fs = RmTree(fd.fs, fd.folder),
                     !.asked = asked, !.answers = answers]

\* FolderDelete._run up to its await, or to its end when it does not ask
FolderDeleteRun ==
    /\ fd.pc = "start"
    /\ IF fd.verify_before_deleting
       THEN LET l == ListDir(fd.fs, fd.folder)
            IN  IF l.ok
                THEN fd' = [fd EXCEPT !.pc = "confirming",
                               !.asked = Append(@, [folder_name |-> fd.folder,
                                                    contents |-> l.names])]
                ELSE FdRaise(l.err)
       ELSE FdDelete(fd.asked, fd.answers)
    /\ UNCHANGED <<agentVars, bind_case, think_case>>

\* human_confirmation answers, and FolderDelete._run goes on to its end
FolderDeleteConfirmed ==
    /\ fd.pc = "confirming"
    /\ \E accepted \in BOOLEAN :
          LET h == HumanConfirmation(accepted)
          IN  IF h.ok
              THEN FdDelete(fd.asked, Append(fd.answers, accepted))
              ELSE fd' = [fd EXCEPT !.done = TRUE, !.pc = "raised", !.err = h.err,
                                    !.answers = Append(@, accepted)]
    /\ UNCHANGED <<agentVars, bind_case, think_case>>

SpecFolderDelete ==
    FolderDeleteInit /\ [][FolderDeleteRun \/ FolderDeleteConfirmed]_vars

\* ------------------------------------------------------------ observations
\* a call of _run that has begun and whose outcome has not been consumed
Started(r) == pc[r] \notin {"idle", "done"}

\* tool invocations the call has begun (the one in flight included)
Invocations(r) == calls[r].tool + (IF pc[r] = "Invoking" THEN 1 ELSE 0)

\* entries of the Step Log appended by call r
OwnSteps(r) == Cardinality({i \in 1..Len(step_owner) : step_owner[i] = r})

\* events of one name published by call r
Published(r, name) ==
    Cardinality({i \in 1..Len(events[r]) : events[r][i].event = name})

\* ------------------------------------------------------------------ claims
\* C1: in any single run with max_steps >= 1, whatever the collaborators do, the
\* number of Capability invocations of that run never exceeds max_steps.
C1_InvocationsWithinMaxSteps ==
    \A r \in Runs : (Started(r) /\ max_steps >= 1) => Invocations(r) <= max_steps

\* C1 witness: a run that has used its whole step budget and ended by it
C1_Witness ==
    \E r \in Runs :
        /\ pc[r] = "returned" /\ status[r] = 1
        /\ max_steps >= 1 /\ Invocations(r) = max_steps

\* the exceptions a collaborator (completion service, human, tool) causes
CollaboratorErrors ==
    {"CompletionError", "AgentError", "ConfirmationRejected", "CapabilityError"}

\* C2: with max_steps = N >= 1, a time budget that does not expire, collaborators
\* that never fail and a reasoner that never answers Final Answer, a run on a Step
\* Log of its own ends having made exactly N invocations, returns the result of
\* the last recorded ActionStep with status 1 and has published exactly one
\* AgentTimeout.
C2_ExactlyMaxStepsInvocations ==
    \A r \in Runs :
        ( /\ pc[r] \in Terminal
          /\ max_steps >= 1
          /\ Elapsed(r) <= max_duration
          /\ err[r] \notin CollaboratorErrors
          /\ status[r] # 0
          /\ \A i \in 1..Len(step_owner) : step_owner[i] = r )
        => /\ pc[r] = "returned" /\ status[r] = 1
           /\ calls[r].tool = max_steps
           /\ Len(action_steps) = max_steps
           /\ value[r] = action_steps[Len(action_steps)].result
           /\ Published(r, "AgentTimeout") = 1

\* C3: when an iteration starts with a non-empty Step Log and the reasoner's
\* response is a Final Answer, the run returns that payload with status 0, and
\* no Selector call, confirmation, invocation, append or event follows.
C3_FinalAnswerTerminates ==
    [][\A r \in Runs :
          ( /\ pc[r] = "Deciding" /\ pc'[r] # "Deciding"
            /\ action_steps # <<>>
            /\ ChooseNextStep(sys1_reply).ok
            /\ ChooseNextStep(sys1_reply).thought_type = <<"Final Answer">> )
          => /\ pc'[r] = "returned" /\ status'[r] = 0
             /\ value'[r] = ChooseNextStep(sys1_reply).thought
             /\ calls'[r] = calls[r]
             /\ action_steps' = action_steps
             /\ events'[r] = events[r]]_vars

\* C4: when the confirmation gate rejects, the run aborts with a failure: the
\* chosen Capability is not invoked, the Step Log and the published events are
\* what they were before the rejection, and the run does nothing afterwards
\* (it holds no AgentTimeout and every confirmation but the rejected one was
\* followed by its invocation).
C4_RejectionAborts ==
    /\ [][\A r \in Runs :
            (Started(r) /\ calls'[r].rejections > calls[r].rejections)
            => /\ pc'[r] = "raised" /\ err'[r] = "ConfirmationRejected"
               /\ calls'[r].tool = calls[r].tool
               /\ action_steps' = action_steps
               /\ events' = events]_vars
    /\ [](\A r \in Runs :
            calls[r].rejections > 0
            => /\ pc[r] = "raised" /\ status[r] = -1
               /\ calls[r].rejections = 1
               /\ calls[r].tool = calls[r].human_confirmation - 1
               /\ OwnSteps(r) = calls[r].tool
               /\ Published(r, "AgentStep") = calls[r].tool
               /\ Published(r, "AgentTimeout") = 0)

\* C4 witness: a run whose confirmation was rejected
C4_Witness ==
    \E r \in Runs : calls[r].rejections = 1 /\ calls[r].human_confirmation = 1

\* C5: when a Capability invocation fails, the failure leaves run at once: no
\* second invocation of it, no ActionStep and no event for it, no AgentTimeout,
\* and neither status 0 nor status 1 is returned.
C5_CapabilityFailurePropagates ==
    /\ [][\A r \in Runs :
            (Started(r) /\ calls'[r].failures > calls[r].failures)
            => /\ pc'[r] = "raised" /\ err'[r] = "CapabilityError"
               /\ action_steps' = action_steps
               /\ events' = events]_vars
    /\ [](\A r \in Runs :
            calls[r].failures > 0
            => /\ pc[r] = "raised" /\ status[r] = -1
               /\ calls[r].failures = 1
               /\ OwnSteps(r) = calls[r].tool - 1
               /\ Published(r, "AgentStep") = calls[r].tool - 1
               /\ Published(r, "AgentTimeout") = 0)

\* C5 witness: a run whose tool invocation failed
C5_Witness ==
    \E r \in Runs : calls[r].failures = 1 /\ calls[r].tool = 1 /\ pc[r] = "raised"

\* C6: the reasoner is consulted only when the Step Log is non-empty, and never
\* in the first iteration of a run call, also for a run that follows an earlier
\* completed run on the same instance.
C6_FirstIterationSkipsReasoner ==
    \A r \in Runs :
        pc[r] = "Deciding" => (action_steps # <<>> /\ steps[r] > 1)

\* C7: the Step Log of a run call is its own: it is empty when the call starts,
\* and every ActionStep it consults, reports or returns from was recorded by
\* that same call.
C7_StepLogOwnedByRun ==
    \A r \in Runs :
        /\ (pc[r] = "LoopHead" /\ steps[r] = 1) => action_steps = <<>>
        /\ (Started(r) /\ pc[r] \notin Terminal)
           => \A i \in 1..Len(step_owner) : step_owner[i] = r

\* C8: construction rejects a non-positive max_steps or max_duration, so no run
\* reaches the budget-exhaustion return with an empty Step Log.
C8_NoExhaustionOnEmptyLog ==
    \A r \in Runs :
        pc[r] = "Exhausted"
        => (max_steps >= 1 /\ max_duration >= 1 /\ action_steps # <<>>)

C10_SingleToolShortCircuit ==
    \A r \in Runs :
        (Started(r) /\ Len(tools) = 1)
        => /\ calls[r].tool_chooser = 0
           /\ tool_choice[r] \in {NoTool, tools[1]}
           /\ (pc[r] \in {"Binding", "Confirming", "Invoking"}
               => tool_choice[r] = tools[1])

\* C10 witness: a run on a one-tool instance that has passed the Selector
C10_Witness ==
    \E r \in Runs : Len(tools) = 1 /\ pc[r] = "Binding" /\ tool_choice[r] = tools[1]

Last(seq) == seq[Len(seq)]

\* C11: with two or more registered Capabilities the Selector returns a
\* Capability whose name equals the tool chooser's response exactly; when no
\* registered name equals it, the run fails with the selection error carrying the
\* raw text, the chooser is not asked again and nothing is confirmed or invoked
\* in that iteration.
C11_SelectorExactMatch ==
    \A r \in Runs :
        (Started(r) /\ Len(tools) >= 2 /\ obs[r].tool_replies # <<>>)
        => LET reply == Last(obs[r].tool_replies)
           IN  IF \E i \in 1..Len(tools) : tools[i].name = reply
               THEN /\ \E i \in 1..Len(tools) : tools[i] = tool_choice[r]
                    /\ tool_choice[r].name = reply
               ELSE /\ pc[r] = "raised" /\ err[r] = "AgentError"
                    /\ obs[r].detail = reply
                    /\ calls[r].tool_chooser = Len(obs[r].tool_replies)
                    /\ Len(obs[r].tool_replies) = calls[r].tool + 1
                    /\ calls[r].human_confirmation = calls[r].tool
                    /\ Len(obs[r].invocations) = OwnSteps(r)

\* C11 witness: a near miss (the name of a registered tool with a leading
\* space) has ended the run with the selection error
C11_Witness ==
    \E r \in Runs :
        /\ Len(tools) >= 2 /\ \E i \in 1..Len(tools) : tools[i] = FileRead
        /\ obs[r].tool_replies = <<(<<Space, "File Read">>)>>
        /\ pc[r] = "raised" /\ obs[r].detail = <<Space, "File Read">>

\* the place of the first colon of a line (one past its end when it has none)
ColonAt(line) ==
    IF \E i \in 1..Len(line) : line[i] = Colon
    THEN CHOOSE i \in 1..Len(line) :
             line[i] = Colon /\ \A j \in 1..(i - 1) : line[j] # Colon
    ELSE Len(line) + 1

\* the trimmed text before, and after, the first colon of a line
BeforeFirstColon(line) == Strip(SubSeq(line, 1, ColonAt(line) - 1))
AfterFirstColon(line) == Strip(SubSeq(line, ColonAt(line) + 1, Len(line)))

\* the argument names a response holds, one per line
NamesIn(reply) ==
    LET lines == Split(reply, Newline)
    IN  {BeforeFirstColon(lines[i]) : i \in 1..Len(lines)}

\* C12: when the argument chooser's response holds an argument name that the
\* chosen Capability's schema does not declare, the Binder fails with the binding
\* error naming it and no mapping comes back, not even the valid pairs before the
\* offending one: the run ends there, and neither the confirmation gate nor the
\* Capability is called for that iteration.
C12_UnknownArgumentFails ==
    \A r \in Runs :
        ( /\ Started(r) /\ obs[r].arg_replies # <<>>
          /\ \E n \in NamesIn(Last(obs[r].arg_replies)) : n \notin tool_choice[r].args )
        => /\ pc[r] = "raised" /\ err[r] = "AgentError"
           /\ obs[r].detail \in NamesIn(Last(obs[r].arg_replies))
           /\ obs[r].detail \notin tool_choice[r].args
           /\ (calls[r].tool = 0 => kwargs[r] = NoKwargs)
           /\ Len(obs[r].confirmations) = calls[r].tool
           /\ Len(obs[r].invocations) = calls[r].tool

\* C12 witness: a response whose first pair is valid and whose second names an
\* undeclared argument has ended the run
C12_Witness ==
    \E r \in Runs :
        /\ tool_choice[r] = FolderList
        /\ obs[r].arg_replies =
               <<(<<"folder", Colon, Space, "/tmp", Newline, "bogus", Colon, Space, "1">>)>>
        /\ pc[r] = "raised" /\ obs[r].detail = <<"bogus">> /\ kwargs[r] = NoKwargs

\* C13: the Binder splits every line of the response on its first colon only:
\* the trimmed text before it is the argument name and ALL the trimmed text
\* after it, further colons included, is the value; a value that reads as a
\* literal is bound as the literal, any other stays the trimmed text. When names
\* repeat, the last line wins. The response "path: /tmp/a.txt\nmode: 'r'" binds
\* path to /tmp/a.txt and mode to r.
C13_SplitOnFirstColon ==
    (bind_case.done /\ bind_case # NoCase /\ ArgChooserAsked(bind_case.tool)
        /\ bind_case.result.ok)
    => LET lines == Split(bind_case.reply, Newline)
           kw == bind_case.result.kwargs
       IN  /\ DOMAIN kw = NamesIn(bind_case.reply)
           /\ \A i \in 1..Len(lines) :
                 (\A j \in (i + 1)..Len(lines) :
                      BeforeFirstColon(lines[j]) # BeforeFirstColon(lines[i]))
                 => LET rest == AfterFirstColon(lines[i])
                        bound == kw[BeforeFirstColon(lines[i])]
                    IN  /\ bound = Eval(rest)
                        /\ (Quote \notin {rest[k] : k \in 1..Len(rest)} /\ bound.t = "str")
                           => bound.v = rest
           /\ (bind_case.tool = PathModeTool /\ bind_case.reply = PathModeReply)
              => kw = [n \in {<<"path">>, <<"mode">>} |->
                          IF n = <<"path">> THEN [t |-> "str", v |-> <<"/tmp/a.txt">>]
                          ELSE [t |-> "str", v |-> <<"r">>]]

\* C13 witness: a value holding a further colon has been bound whole
C13_Witness ==
    /\ bind_case.done /\ bind_case # NoCase /\ bind_case.result.ok
    /\ bind_case.reply = <<"path", Colon, "/tmp/a.txt", Colon>>
    /\ bind_case.result.kwargs[<<"path">>].v = <<"/tmp/a.txt", Colon>>

\* C14: for a Capability that declares no arguments the Binder returns the
\* empty mapping and the argument chooser is not called: the iteration goes on to
\* the confirmation gate with no arguments.
C14_EmptySchemaSkipsChooser ==
    [][\A r \in Runs :
          (pc[r] = "Binding" /\ tool_choice[r].args = {} /\ pc'[r] # "Binding")
          => /\ pc'[r] = "Confirming"
             /\ kwargs'[r] = [n \in {} |-> <<>>]
             /\ calls'[r].arg_chooser = calls[r].arg_chooser
             /\ obs'[r].arg_replies = obs[r].arg_replies]_vars

\* C14 witness: a tool without arguments has been bound, the chooser unasked
C14_Witness ==
    \E r \in Runs :
        /\ pc[r] = "Confirming" /\ tool_choice[r] = NoArgTool
        /\ kwargs[r] = [n \in {} |-> <<>>] /\ calls[r].arg_chooser = 0

\* a response begins with `Question:` or `Final Answer:`
HasShape(resp) ==
    Len(resp) >= 2 /\ resp[1] \in {"Question", "Final Answer"} /\ resp[2] = Colon

\* C15: for a response that begins with `Question:` or `Final Answer:` the
\* Reasoner returns the kind of the prefix and, as payload, all of the text after
\* the first colon, further colons included.
C15_PayloadIsAllAfterFirstColon ==
    (think_case.done /\ think_case # NoCase /\ HasShape(think_case.resp))
    => /\ think_case.result.ok
       /\ think_case.result.thought_type = <<think_case.resp[1]>>
       /\ think_case.result.thought = SubSeq(think_case.resp, 3, Len(think_case.resp))

\* C16 (the Reasoner's part): a response of any other shape, a bare `Question`
\* or `Final Answer` without a colon included, fails with the reasoning error
\* carrying the raw response.
C16_OtherShapesRaiseReasoningError ==
    (think_case.done /\ think_case # NoCase /\ ~HasShape(think_case.resp))
    => /\ ~think_case.result.ok
       /\ think_case.result.err = "AgentError"
       /\ think_case.result.detail = think_case.resp

\* C17: calls of _run that overlap, interleaved at their awaits, never read or
\* append to the same Step Log: the log never holds steps of two calls, and the
\* steps a call hands to the Reasoner or returns its exhaustion result from are
\* all its own.
C17_OverlappingRunsShareNoLog ==
    /\ \A i, j \in 1..Len(step_owner) : step_owner[i] = step_owner[j]
    /\ \A r \in Runs :
          pc[r] \in {"Deciding", "Exhausted"}
          => \A i \in 1..Len(step_owner) : step_owner[i] = r

\* C18: FolderDelete run on a folder that does not exist ignores that and
\* returns exit_code 0, whether verify_before_deleting is set or not; and when
\* it is set nothing is deleted before the confirmation was given, so a
\* rejection leaves the file system as it was.
C18_FolderDeleteIgnoresMissing ==
    (fd # NoCase /\ fd.done)
    => /\ fd.fs0[fd.folder] = Missing
          => fd.pc = "returned" /\ fd.exit_code = 0 /\ fd.fs = fd.fs0
       /\ (fd.verify_before_deleting /\ fd.fs # fd.fs0)
          => fd.answers = <<TRUE>>
       /\ (fd.verify_before_deleting /\ fd.answers = <<FALSE>>)
          => fd.fs = fd.fs0 /\ fd.pc = "raised"

\* C19: every invocation of a tool in a run comes right after an accepted
\* human confirmation of the same iteration whose payload names that tool and
\* holds exactly the arguments the tool is invoked with; within an iteration the
\* order is Selector, Binder, confirmation, invocation, Step Log append.
C19_ConfirmedBeforeInvoked ==
    /\ [](\A r \in Runs :
            Started(r)
            => /\ Len(obs[r].invocations) <= Len(obs[r].confirmations)
               /\ Len(obs[r].confirmations) <= Len(obs[r].invocations) + 1
               /\ \A k \in 1..Len(obs[r].invocations) :
                     /\ obs[r].confirmations[k].accepted
                     /\ obs[r].confirmations[k].payload =
                            [tool |-> obs[r].invocations[k].tool,
                             args |-> obs[r].invocations[k].args]
               /\ pc[r] = "Invoking"
                  => /\ Len(obs[r].confirmations) = Len(obs[r].invocations) + 1
                     /\ Last(obs[r].confirmations) =
                            [payload |-> [tool |-> tool_choice[r].name,
                                          args |-> kwargs[r]],
                             accepted |-> TRUE]
               /\ OwnSteps(r) <= Len(obs[r].invocations))
    /\ [][\A r \in Runs :
            /\ (pc'[r] = "Binding" /\ pc[r] # "Binding") => pc[r] = "Selecting"
            /\ (pc'[r] = "Confirming" /\ pc[r] # "Confirming") => pc[r] = "Binding"
            /\ (pc'[r] = "Invoking" /\ pc[r] # "Invoking") => pc[r] = "Confirming"
            /\ obs'[r].tool_replies # obs[r].tool_replies => pc[r] \in {"idle", "Selecting"} \cup Terminal
            /\ (obs'[r].confirmations # obs[r].confirmations /\ pc[r] \notin Terminal)
               => /\ pc[r] = "Confirming"
                  /\ obs'[r].invocations = obs[r].invocations
            /\ (obs'[r].invocations # obs[r].invocations /\ pc[r] \notin Terminal)
               => /\ pc[r] = "Invoking"
                  /\ obs'[r].confirmations = obs[r].confirmations
                  /\ Last(obs'[r].invocations) = Last(obs[r].confirmations).payload
            /\ (Len(action_steps') > Len(action_steps) /\ Last(step_owner') = r)
               => /\ pc[r] = "Invoking"
                  /\ Len(obs'[r].invocations) = Len(obs[r].invocations) + 1
                  /\ Last(action_steps').action.tool_name = Last(obs'[r].invocations).tool
                  /\ Last(action_steps').action.args = Last(obs'[r].invocations).args]_vars

\* C19 witness: a tool has been invoked with arguments the Binder bound, after
\* the confirmation of that tool with those arguments, and its step is recorded
C19_Witness ==
    \E r \in Runs :
        /\ pc[r] = "LoopHead" /\ OwnSteps(r) = 1
        /\ kwargs[r] # NoKwargs
        /\ obs[r].invocations = <<[tool |-> tool_choice[r].name, args |-> kwargs[r]]>>
        /\ obs[r].confirmations =
               <<[payload |-> [tool |-> tool_choice[r].name, args |-> kwargs[r]],
                  accepted |-> TRUE]>>

\* C20: during a run the Step Log only grows at its end: every earlier log is
\* a prefix of the later one; each successful invocation appends exactly one
\* ActionStep holding the working question, the tool's name, the bound arguments
\* and the result, and publishes exactly one AgentStep event carrying that step;
\* the AgentStep events of a run are as many as the steps it appended.
C20_StepLogAppendOnly ==
    /\ [][/\ Len(action_steps) <= Len(action_steps')
          /\ SubSeq(action_steps', 1, Len(action_steps)) = action_steps
          /\ Len(action_steps') <= Len(action_steps) + 1
          /\ \A r \in Runs :
                (pc[r] = "Invoking" /\ pc'[r] = "LoopHead")
                => /\ Len(action_steps') = Len(action_steps) + 1
                   /\ Last(step_owner') = r
                   /\ Last(action_steps').question = question[r]
                   /\ Last(action_steps').action =
                          [tool_name |-> tool_choice[r].name, args |-> kwargs[r]]
                   /\ Last(action_steps').result \in Results
                   /\ events'[r] = Append(events[r],
                                          [event |-> "AgentStep",
                                           action_step |-> Last(action_steps')])
          /\ \A r \in Runs :
                (pc[r] \notin Terminal /\ ~(pc[r] = "Invoking" /\ pc'[r] = "LoopHead"))
                => /\ Published(r, "AgentStep")' = Published(r, "AgentStep")
                   /\ OwnSteps(r)' = OwnSteps(r)]_vars
    /\ [](\A r \in Runs :
            Started(r)
            => /\ Published(r, "AgentStep") = OwnSteps(r)
               /\ OwnSteps(r) = calls[r].tool - calls[r].failures)

\* C20 witness: a successful invocation has appended its step and published it
C20_Witness ==
    \E r \in Runs :
        /\ pc[r] = "LoopHead" /\ steps[r] = 2
        /\ OwnSteps(r) = 1 /\ Published(r, "AgentStep") = 1
        /\ Last(action_steps).result \in Results
        /\ Last(events[r]).action_step = Last(action_steps)

\* C21: when the Reasoner answers a Question with payload q, q becomes the
\* working question: the iteration goes on to the Selector with q, which is what
\* the Binder is given and what the recorded ActionStep holds; the working
\* question changes at no other place, and the first iteration of a run works on
\* the goal the caller gave.
C21_QuestionBecomesWorkingQuestion ==
    [][\A r \in Runs :
          /\ ( /\ pc[r] = "Deciding" /\ pc'[r] # "Deciding"
               /\ ChooseNextStep(sys1_reply).ok
               /\ ChooseNextStep(sys1_reply).thought_type = <<"Question">> )
             => /\ pc'[r] = "Selecting"
                /\ question'[r] = ChooseNextStep(sys1_reply).thought
          /\ (pc[r] \in {"LoopHead", "Selecting", "Binding", "Confirming", "Invoking"})
             => question'[r] = question[r]
          /\ (pc[r] = "Invoking" /\ pc'[r] = "LoopHead")
             => Last(action_steps').question = question[r]
          /\ (pc[r] = "idle" /\ pc'[r] = "LoopHead") => question'[r] \in Goals]_vars

====
